---- MODULE Spec2Model ----
(***************************************************************************)
(* NaiveVec<T>: a growable array over a raw allocation (src/naive_vec.rs). *)
(* The machine word is scaled down to WordBits bits so that usize::MAX and *)
(* isize::MAX are met by short runs; element sizes range over ElemSizes,   *)
(* size 0 being the zero-sized type.                                       *)
(***************************************************************************)
EXTENDS Integers, Sequences, FiniteSets, TLC

\* ---------------------------------------------------------------- bounds
WordBits == 4
MaxLen == 4
MaxVal == 2

\* ------------------------------------------------------- platform values
USIZE_MAX == 2^WordBits - 1
ISIZE_MAX == 2^(WordBits - 1) - 1
WordMod == 2^WordBits

ElemSizes == {0, 1, 2, 4}
HeapAddrs == {4, 8}
NULL == 0

Unit == 0
None == -1
Garbage == -2

Vals(es) == IF es = 0 THEN {Unit} ELSE 1..MaxVal

Min(a, b) == IF a < b THEN a ELSE b

VARIABLES
    esize,      \* size_of::<T>()
    ptr,        \* buf.ptr, as an address
    cap,        \* buf.cap
    len,        \* NaiveVec::len
    mem,        \* the bytes of the allocation, one entry per slot
    init,       \* slots that hold an owned value of T
    heapSize,   \* byte size of the live allocation, 0 when there is none
    allocOps,   \* allocator entry points called so far
    deallocs,   \* layouts handed to dealloc, in order
    growEntered,\* grow() has been called
    status,     \* "live", "panicked", "aborted", "dropped"
    drain,      \* the Drain borrowing the vector, if any
    destroyed,  \* element destructors run by the container
    last,       \* what the last operation did
    prev,       \* the operation before it
    onlyPush,   \* every mutation so far was a push that returned
    pushed,     \* while onlyPush: the values pushed, in order
    maxLen      \* the greatest length reached so far by a sized vector

vars == <<esize, ptr, cap, len, mem, init, heapSize, allocOps, deallocs,
          growEntered, status, drain, destroyed, last, prev, onlyPush, pushed,
          maxLen>>

\* ------------------------------------------------------ raw memory model
Dangling(es) == IF es = 0 THEN 1 ELSE es

\* ptr::write(p.add(i), v): a bitwise store, nothing is dropped
PtrWrite(m, i, v) == IF i \in DOMAIN m THEN [m EXCEPT ![i] = v] ELSE m

\* ptr::read(p.add(i)): a bitwise load
PtrRead(m, i) ==
    IF esize = 0 THEN Unit
    ELSE IF i \in DOMAIN m THEN m[i] ELSE Garbage

\* ptr::copy(p.add(src), p.add(dst), n): memmove of n slots
PtrCopy(m, src, dst, n) ==
    [k \in DOMAIN m |->
        IF k >= dst /\ k < dst + n
        THEN (IF src + (k - dst) \in DOMAIN m THEN m[src + (k - dst)] ELSE Garbage)
        ELSE m[k]]

\* ownership moved by ptr::copy: the destination slots own what the source
\* slots owned, the source slots outside the destination own nothing
MoveOwned(s, src, dst, n) ==
    LET srcR == {k \in 0..USIZE_MAX : k >= src /\ k < src + n}
        dstR == {k \in 0..USIZE_MAX : k >= dst /\ k < dst + n}
    IN  ((s \ srcR) \ dstR) \cup {dst + (k - src) : k \in (s \cap srcR)}

\* Deref: slice::from_raw_parts(ptr, len), as the sequence it views
SliceOf(m, l) == [k \in 1..l |-> PtrRead(m, k - 1)]
Deref == SliceOf(mem, len)


\* ---------------------------------------------------------------- RawVec
\* a fresh buffer that forgets the zero-sized case
RawVecNewCapNoZst(es) == 0

\* RawVec::new: the capacity of a fresh buffer
RawVecNewCap(es) == IF es = 0 THEN USIZE_MAX ELSE 0

\* growth by a factor of four
GrowNewCapQuad(c) == IF c = 0 THEN 1 ELSE (c * 4) % WordMod

\* growth that keeps the capacity it had
GrowNewCapSame(c) == IF c = 0 THEN 1 ELSE c

\* growth by one slot instead of doubling
GrowNewCapLinear(c) == IF c = 0 THEN 1 ELSE (c + 1) % WordMod

\* grow, part 1: the new capacity (usize arithmetic)
GrowNewCap(c) == IF c = 0 THEN 1 ELSE (c * 2) % WordMod

\* Layout::array::<T>(n).size()
LayoutSize(es, n) == es * n

\* no size check at all
GrowTooLargeNever(es, n) == FALSE

\* a size check against usize::MAX instead of isize::MAX
GrowTooLargeUsize(es, n) == LayoutSize(es, n) > USIZE_MAX

\* the layout is rejected: Layout::array fails or the isize::MAX assertion does
GrowTooLarge(es, n) == LayoutSize(es, n) > ISIZE_MAX

\* what a call that does not grow leaves
Keep ==
    [out |-> "ok", ptr |-> ptr, cap |-> cap, mem |-> mem,
     heapSize |-> heapSize, calls |-> {}]

\* a grow that allocates afresh and does not carry the old bytes over
GrowFresh(r) ==
    IF esize = 0 THEN [Keep EXCEPT !.out = "panicked"]
    ELSE LET newCap == GrowNewCap(cap)
             call == "alloc"
         IN  IF GrowTooLarge(esize, newCap) THEN [Keep EXCEPT !.out = "panicked"]
             ELSE IF r = NULL
                  THEN [Keep EXCEPT !.out = "aborted", !.calls = {call}]
                  ELSE [out |-> "ok",
                        ptr |-> r,
                        cap |-> newCap,
                        mem |-> [k \in 0..(newCap - 1) |-> Garbage],
                        heapSize |-> LayoutSize(esize, newCap),
                        calls |-> {call}]

\* RawVec::grow, r being what alloc/realloc returns (NULL on failure)
Grow(r) ==
    IF esize = 0 THEN [Keep EXCEPT !.out = "panicked"]
    ELSE LET newCap == GrowNewCap(cap)
             call == IF cap = 0 THEN "alloc" ELSE "realloc"
         IN  IF GrowTooLarge(esize, newCap) THEN [Keep EXCEPT !.out = "panicked"]
             ELSE IF r = NULL
                  THEN [Keep EXCEPT !.out = "aborted", !.calls = {call}]
                  ELSE [out |-> "ok",
                        ptr |-> r,
                        cap |-> newCap,
                        mem |-> [k \in 0..(newCap - 1) |->
                                    IF k \in DOMAIN mem THEN mem[k] ELSE Garbage],
                        heapSize |-> LayoutSize(esize, newCap),
                        calls |-> {call}]

\* the allocator's possible answers to the call an operation may make
AllocResults(full) == IF full THEN HeapAddrs \cup {NULL} ELSE {NULL}

\* ----------------------------------------------------- operation records
NoDrain == [active |-> FALSE, start |-> 0, end |-> 0, src |-> <<>>, out |-> <<>>,
            cap0 |-> 0]

\* what is remembered of the operation before the last one: an element added
\* or a drain ended, with the contents it started from
Trim(l) ==
    IF l.ok /\ l.op \in {"push", "insert", "drain"}
    THEN [op |-> l.op, arg |-> l.arg, idx |-> l.idx, pre |-> l.pre]
    ELSE [op |-> "other", arg |-> None, idx |-> 0, pre |-> <<>>]

\* grew: the operation called grow; calls: the allocator calls it made
Log(op, ok, arg, idx, res, reads, writes, grew, out, calls) ==
    /\ last' = [op |-> op, ok |-> ok, arg |-> arg, idx |-> idx, res |-> res,
                pre |-> Deref, preCap |-> cap, prePtr |-> ptr,
                preHeap |-> heapSize, reads |-> reads,
                writes |-> writes, grew |-> grew, out |-> out, calls |-> calls]
    /\ prev' = Trim(last)

\* ------------------------------------------------------------- NaiveVec
\* push that stores one slot past the end of the live range
PushOpOffByOne(l) == [write |-> l + 1, len |-> l + 1]

\* push: the slot written and the new length
PushOp(l) == [write |-> l, len |-> l + 1]

\* pop that reads before it decrements the length
PopOpStale(l) == [len |-> l - 1, read |-> l]

\* pop that hands back the first element
PopOpFirst(l) == [len |-> l - 1, read |-> 0]

\* pop: the new length and the slot read
PopOp(l) == [len |-> l - 1, read |-> l - 1]

\* insert that accepts one index too many
InsertOobLoose(l, index) == index > l + 1

\* insert that moves one element too few
InsertOpShort(l, index) ==
    [copy |-> <<index, index + 1, (l - index) - 1>>, write |-> index, len |-> l + 1]

\* insert: bounds check, block move, slot written, new length
InsertOob(l, index) == index > l
InsertOp(l, index) ==
    [copy |-> <<index, index + 1, l - index>>, write |-> index, len |-> l + 1]

\* remove that hands back the last element
RemoveOpLast(l, index) ==
    [len |-> l - 1, read |-> l - 1, copy |-> <<index + 1, index, (l - 1) - index>>]

\* remove that closes the gap from the wrong side
RemoveOpShort(l, index) ==
    [len |-> l - 1, read |-> index, copy |-> <<index + 1, index, (l - 2) - index>>]

\* remove: bounds check, new length, slot read, block move
RemoveOob(l, index) == index >= l
RemoveOp(l, index) ==
    [len |-> l - 1, read |-> index, copy |-> <<index + 1, index, (l - 1) - index>>]

Init ==
    /\ esize \in ElemSizes
    /\ ptr = Dangling(esize)
    /\ cap = RawVecNewCap(esize)
    /\ len = 0
    /\ mem = [k \in {} |-> Garbage]
    /\ init = {}
    /\ heapSize = 0
    /\ allocOps = {}
    /\ deallocs = <<>>
    /\ growEntered = FALSE
    /\ status = "live"
    /\ drain = NoDrain
    /\ destroyed = 0
    /\ last = [op |-> "new", ok |-> TRUE, arg |-> None, idx |-> 0, res |-> None,
               pre |-> <<>>, preCap |-> 0, prePtr |-> 0, preHeap |-> 0,
               reads |-> {}, writes |-> {}, grew |-> FALSE, out |-> <<>>,
               calls |-> {}]
    /\ prev = [op |-> "other", arg |-> None, idx |-> 0, pre |-> <<>>]
    /\ onlyPush = TRUE
    /\ pushed = <<>>
    /\ maxLen = 0

\* the high-water mark of the length, kept for sized element types
HighWater(hw, l) == IF esize = 0 THEN 0 ELSE IF l > hw THEN l ELSE hw

Usable == status = "live" /\ ~drain.active
Room == esize # 0 => len < MaxLen

\* an operation that ends in a panic or an abort before it touches the vector
Fatal(op, how, arg, idx, grew, calls) ==
    /\ status' = how
    /\ growEntered' = (growEntered \/ grew)
    /\ allocOps' = allocOps \cup calls
    /\ Log(op, FALSE, arg, idx, None, {}, {}, grew, <<>>, calls)
    /\ onlyPush' = FALSE /\ pushed' = <<>>
    /\ UNCHANGED <<esize, maxLen, ptr, cap, len, mem, init, heapSize, deallocs, drain,
                   destroyed>>

Push(elem, r) ==
    /\ Usable /\ Room
    /\ LET full == len = cap
           g == IF full THEN Grow(r) ELSE Keep
           o == PushOp(len)
       IN  IF g.out # "ok" THEN Fatal("push", g.out, elem, len, full, g.calls)
           ELSE /\ ptr' = g.ptr /\ cap' = g.cap /\ heapSize' = g.heapSize
                /\ mem' = PtrWrite(g.mem, o.write, elem)
                /\ init' = init \cup {o.write}
                /\ len' = o.len
                /\ growEntered' = (growEntered \/ full)
                /\ allocOps' = allocOps \cup g.calls
                /\ Log("push", TRUE, elem, len, None, {}, {o.write}, full, <<>>,
                       g.calls)
                /\ pushed' = IF onlyPush THEN Append(pushed, elem) ELSE pushed
                /\ maxLen' = HighWater(maxLen, o.len)
                /\ UNCHANGED <<esize, deallocs, status, drain, destroyed, onlyPush>>

\* a pop without the empty case
PopNoEmptyCheck ==
    /\ Usable
    /\ LET o == PopOp(len)
       IN  /\ len' = o.len
           /\ init' = init \ {o.read}
           /\ Log("pop", TRUE, None, o.read, PtrRead(mem, o.read), {o.read}, {},
                  FALSE, <<>>, {})
    /\ onlyPush' = FALSE /\ pushed' = <<>>
    /\ UNCHANGED <<esize, maxLen, ptr, cap, mem, heapSize, allocOps, deallocs, growEntered,
                   status, drain, destroyed>>

Pop ==
    /\ Usable
    /\ IF len = 0
       THEN /\ Log("pop", TRUE, None, 0, None, {}, {}, FALSE, <<>>, {})
            /\ UNCHANGED <<len, init>>
       ELSE LET o == PopOp(len)
            IN  /\ len' = o.len
                /\ init' = init \ {o.read}
                /\ Log("pop", TRUE, None, o.read, PtrRead(mem, o.read), {o.read}, {},
                       FALSE, <<>>, {})
    /\ onlyPush' = FALSE /\ pushed' = <<>>
    /\ UNCHANGED <<esize, maxLen, ptr, cap, mem, heapSize, allocOps, deallocs, growEntered,
                   status, drain, destroyed>>

\* an insert that grows a full vector before it checks the index
InsertGrowFirst(index, elem, r) ==
    /\ Usable /\ Room
    /\ LET full == cap = len
           g == IF full THEN Grow(r) ELSE Keep
           o == InsertOp(len, index)
       IN  IF g.out # "ok"
           THEN Fatal("insert", g.out, elem, index, full, g.calls)
           ELSE IF InsertOob(len, index)
           THEN /\ ptr' = g.ptr /\ cap' = g.cap /\ heapSize' = g.heapSize
                /\ mem' = g.mem
                /\ status' = "panicked"
                /\ growEntered' = (growEntered \/ full)
                /\ allocOps' = allocOps \cup g.calls
                /\ Log("insert", FALSE, elem, index, None, {}, {}, full, <<>>,
                       g.calls)
                /\ onlyPush' = FALSE /\ pushed' = <<>>
                /\ UNCHANGED <<esize, maxLen, len, init, deallocs, drain, destroyed>>
           ELSE /\ ptr' = g.ptr /\ cap' = g.cap /\ heapSize' = g.heapSize
                /\ mem' = PtrWrite(PtrCopy(g.mem, o.copy[1], o.copy[2], o.copy[3]),
                                   o.write, elem)
                /\ init' = MoveOwned(init, o.copy[1], o.copy[2], o.copy[3])
                               \cup {o.write}
                /\ len' = o.len
                /\ growEntered' = (growEntered \/ full)
                /\ allocOps' = allocOps \cup g.calls
                /\ Log("insert", TRUE, elem, index, None, {}, {o.write}, full,
                       <<>>, g.calls)
                /\ onlyPush' = FALSE /\ pushed' = <<>>
                /\ maxLen' = HighWater(maxLen, o.len)
                /\ UNCHANGED <<esize, deallocs, status, drain, destroyed>>

Insert(index, elem, r) ==
    /\ Usable /\ Room
    /\ IF InsertOob(len, index)
       THEN Fatal("insert", "panicked", elem, index, FALSE, {})
       ELSE LET full == cap = len
                g == IF full THEN Grow(r) ELSE Keep
                o == InsertOp(len, index)
            IN  IF g.out # "ok"
                THEN Fatal("insert", g.out, elem, index, full, g.calls)
                ELSE /\ ptr' = g.ptr /\ cap' = g.cap /\ heapSize' = g.heapSize
                     /\ mem' = PtrWrite(PtrCopy(g.mem, o.copy[1], o.copy[2], o.copy[3]),
                                        o.write, elem)
                     /\ init' = MoveOwned(init, o.copy[1], o.copy[2], o.copy[3])
                                    \cup {o.write}
                     /\ len' = o.len
                     /\ growEntered' = (growEntered \/ full)
                     /\ allocOps' = allocOps \cup g.calls
                     /\ Log("insert", TRUE, elem, index, None, {}, {o.write}, full,
                            <<>>, g.calls)
                     /\ onlyPush' = FALSE /\ pushed' = <<>>
                     /\ maxLen' = HighWater(maxLen, o.len)
                     /\ UNCHANGED <<esize, deallocs, status, drain, destroyed>>

Remove(index) ==
    /\ Usable
    /\ IF RemoveOob(len, index)
       THEN Fatal("remove", "panicked", None, index, FALSE, {})
       ELSE LET o == RemoveOp(len, index)
            IN  /\ len' = o.len
                /\ mem' = PtrCopy(mem, o.copy[1], o.copy[2], o.copy[3])
                /\ init' = MoveOwned(init \ {o.read}, o.copy[1], o.copy[2], o.copy[3])
                /\ Log("remove", TRUE, None, index, PtrRead(mem, o.read), {o.read}, {},
                       FALSE, <<>>, {})
                /\ onlyPush' = FALSE /\ pushed' = <<>>
                /\ UNCHANGED <<esize, maxLen, ptr, cap, heapSize, allocOps, deallocs,
                               growEntered, status, drain, destroyed>>

\* indexing through Deref: the slice's bounds check against self.len
IndexOob(l, index) == index >= l

Index(index) ==
    /\ Usable
    /\ IF IndexOob(len, index)
       THEN Fatal("index", "panicked", None, index, FALSE, {})
       ELSE /\ Log("index", TRUE, None, index, PtrRead(mem, index), {index}, {},
                   FALSE, <<>>, {})
            /\ UNCHANGED <<esize, maxLen, ptr, cap, len, mem, init, heapSize, allocOps,
                           deallocs, growEntered, status, drain, destroyed, onlyPush,
                           pushed>>

\* Drop for NaiveVec: the element destructors it runs, and the length it leaves
DropElems(l) == 0
DropLen(l) == 0

\* a release that frees even when nothing was allocated
RawVecDropNoCapCheck(es, p, c) ==
    IF es = 0 THEN <<>> ELSE <<[addr |-> p, size |-> LayoutSize(es, c)]>>

\* Drop for RawVec: the layouts it hands to dealloc
RawVecDrop(es, p, c) ==
    IF c = 0 \/ es = 0 THEN <<>> ELSE <<[addr |-> p, size |-> LayoutSize(es, c)]>>

Drop ==
    /\ Usable
    /\ destroyed' = DropElems(len)
    /\ len' = DropLen(len)
    /\ LET d == RawVecDrop(esize, ptr, cap)
       IN  /\ deallocs' = deallocs \o d
           /\ allocOps' = allocOps \cup (IF d = <<>> THEN {} ELSE {"dealloc"})
           /\ heapSize' = IF d = <<>> THEN heapSize ELSE 0
    /\ mem' = [k \in {} |-> Garbage]
    /\ init' = {}
    /\ status' = "dropped"
    /\ Log("drop", TRUE, None, 0, None, {}, {}, FALSE, <<>>,
           IF RawVecDrop(esize, ptr, cap) = <<>> THEN {} ELSE {"dealloc"})
    /\ onlyPush' = FALSE /\ pushed' = <<>>
    /\ UNCHANGED <<esize, maxLen, ptr, cap, growEntered, drain>>

\* ------------------------------------------------------ RawValIter, Drain
\* an iterator whose end stops one element short
RawValIterNewShort(p, l) ==
    [start |-> p,
     end |-> IF esize = 0 THEN (p + l) % WordMod
             ELSE IF l = 0 THEN p
             ELSE p + (l - 1) * esize]

\* RawValIter::new over the slice (p, l)
RawValIterNew(p, l) ==
    [start |-> p,
     end |-> IF esize = 0 THEN (p + l) % WordMod
             ELSE IF l = 0 THEN p
             ELSE p + l * esize]

\* the slot a pointer into the buffer addresses
SlotOf(a) == IF esize = 0 THEN (a - ptr) % WordMod ELSE (a - ptr) \div esize

\* a next that reads after it has advanced
RawValIterNextPeek(it) ==
    IF it.start = it.end THEN [some |-> FALSE, val |-> None, start |-> it.start]
    ELSE [some |-> TRUE,
          val |-> PtrRead(mem, SlotOf(it.start) + 1),
          start |-> IF esize = 0 THEN (it.start + 1) % WordMod
                    ELSE it.start + esize]

\* RawValIter::next: the element read and the advanced cursor, or None
RawValIterNext(it) ==
    IF it.start = it.end THEN [some |-> FALSE, val |-> None, start |-> it.start]
    ELSE [some |-> TRUE,
          val |-> PtrRead(mem, SlotOf(it.start)),
          start |-> IF esize = 0 THEN (it.start + 1) % WordMod
                    ELSE it.start + esize]

\* RawValIter::size_hint
SizeHint(it) ==
    LET divider == IF esize = 0 THEN 1 ELSE esize
    IN  ((it.end - it.start) % WordMod) \div divider

\* drain(): an iterator over the live range, the vector left with length 0
DrainStart ==
    /\ Usable
    /\ LET it == RawValIterNew(ptr, len)
       IN  drain' = [active |-> TRUE, start |-> it.start, end |-> it.end,
                     src |-> Deref, out |-> <<>>, cap0 |-> cap]
    /\ len' = 0
    /\ Log("drain_start", TRUE, None, 0, None, {}, {}, FALSE, <<>>, {})
    /\ onlyPush' = FALSE /\ pushed' = <<>>
    /\ UNCHANGED <<esize, maxLen, ptr, cap, mem, init, heapSize, allocOps, deallocs,
                   growEntered, status, destroyed>>

\* Drain::next
DrainNext ==
    /\ status = "live" /\ drain.active
    /\ LET n == RawValIterNext(drain)
           slot == SlotOf(drain.start)
       IN  IF n.some
           THEN /\ drain' = [drain EXCEPT !.start = n.start,
                                          !.out = Append(drain.out, n.val)]
                /\ init' = init \ {slot}
                /\ Log("drain_next", TRUE, None, slot, n.val, {slot}, {}, FALSE, <<>>, {})
           ELSE /\ Log("drain_next", TRUE, None, 0, None, {}, {}, FALSE, <<>>, {})
                /\ UNCHANGED <<drain, init>>
    /\ UNCHANGED <<esize, maxLen, ptr, cap, len, mem, heapSize, allocOps, deallocs,
                   growEntered, status, destroyed, onlyPush, pushed>>

\* the Drain goes out of scope: it has no destructor, the borrow ends
DrainEnd ==
    /\ status = "live" /\ drain.active
    /\ drain' = NoDrain
    /\ init' = {}
    /\ last' = [op |-> "drain", ok |-> TRUE, arg |-> None, idx |-> 0,
                res |-> SizeHint(drain), pre |-> drain.src, preCap |-> drain.cap0,
                prePtr |-> ptr, preHeap |-> heapSize,
                reads |-> {}, writes |-> {}, grew |-> FALSE, out |-> drain.out,
                calls |-> {}]
    /\ prev' = Trim(last)
    /\ UNCHANGED <<esize, maxLen, ptr, cap, len, mem, heapSize, allocOps, deallocs,
                   growEntered, status, destroyed, onlyPush, pushed>>

\* the indices tried: every one near the front, and those around len
Indices == {i \in 0..Min(len + 1, USIZE_MAX) : i <= MaxLen \/ i >= len - 1}

Next ==
    \/ \E v \in Vals(esize), r \in AllocResults(len = cap) : Push(v, r)
    \/ Pop
    \/ \E i \in Indices, v \in Vals(esize), r \in AllocResults(len = cap) :
          Insert(i, v, r)
    \/ \E i \in Indices : Remove(i)
    \/ \E i \in Indices : Index(i)
    \/ Drop
    \/ DrainStart
    \/ DrainNext
    \/ DrainEnd

Spec == Init /\ [][Next]_vars

TypeOK ==
    /\ len \in 0..USIZE_MAX
    /\ cap \in 0..USIZE_MAX
    /\ status \in {"live", "panicked", "aborted", "dropped"}

\* ================================================================ claims
LiveSlots == 0..(len - 1)

\* C1: outside a drain, the slots [0, len) are exactly the slots that hold an
\* owned, initialized value (so [len, cap) hold none), and the slot that pop,
\* remove or indexing read lay inside the live range the operation started from
C1_LiveRange ==
    /\ ~drain.active =>
          /\ init = LiveSlots
          /\ \A i \in LiveSlots : PtrRead(mem, i) # Garbage
          /\ esize # 0 => LiveSlots \subseteq DOMAIN mem
    /\ last.op \in {"pop", "remove", "index"} =>
          /\ last.reads \subseteq 0..(Len(last.pre) - 1)
          /\ last.res # Garbage

C1_Witness ==
    /\ status = "live" /\ esize = 1
    /\ last.op = "remove" /\ last.ok /\ last.idx = 0
    /\ len = 2 /\ cap = 4

\* C2: after pushes only, the length is the number of pushes, index i reads the
\* i-th pushed value, and the slice iterated is the pushed sequence
C2_PushesReadBack ==
    onlyPush =>
        /\ len = Len(pushed)
        /\ \A i \in 0..(Len(pushed) - 1) : PtrRead(mem, i) = pushed[i + 1]
        /\ Deref = pushed

C2_Witness ==
    /\ onlyPush /\ esize = 1 /\ len = 3
    /\ pushed[1] # pushed[2]

\* C3: a destroyed container has run one element destructor per live element
C3_DropDestroysLive ==
    status = "dropped" => destroyed = Len(last.pre)

IsPrefix(a, b) == Len(a) <= Len(b) /\ \A k \in 1..Len(a) : a[k] = b[k]

\* C4: a drain run to its end has yielded the elements it started from, in
\* order and once each (a prefix of them while it runs); the vector is then
\* empty with the capacity it had, and a push that follows stores its element
\* in that same buffer
C4_Drain ==
    /\ drain.active => IsPrefix(drain.out, drain.src) /\ len = 0
    /\ (last.op = "drain" /\ last.res = 0) =>
          /\ last.out = last.pre
          /\ len = 0
          /\ cap = last.preCap
    /\ (prev.op = "drain" /\ last.op = "push" /\ last.preCap > 0) =>
          /\ last.ok
          /\ Deref = <<last.arg>>
          /\ cap = last.preCap

C4_Witness ==
    /\ esize = 1 /\ last.op = "drain" /\ last.res = 0
    /\ Len(last.pre) = 3 /\ last.pre[1] # last.pre[3]

\* C5: an insert that returns has lengthened the vector by one, index i reads
\* the value, the elements before i are as they were and those from i on sit
\* one place to the right in the same order; it grew first when full, and an
\* insert at a valid index fails only inside grow
C5_Insert ==
    /\ (last.op = "insert" /\ last.ok) =>
          LET pre == last.pre
              i == last.idx
          IN  /\ len = Len(pre) + 1
              /\ Deref[i + 1] = last.arg
              /\ \A k \in 1..i : Deref[k] = pre[k]
              /\ \A k \in (i + 1)..Len(pre) : Deref[k + 1] = pre[k]
              /\ last.grew = (Len(pre) = last.preCap)
              /\ last.grew => cap > last.preCap
    /\ (last.op = "insert" /\ ~last.ok /\ last.idx <= Len(last.pre)) =>
          Len(last.pre) = last.preCap

C5_Witness ==
    /\ esize = 1 /\ last.op = "insert" /\ last.ok /\ last.grew
    /\ last.idx = 1 /\ Len(last.pre) = 2 /\ last.pre[1] # last.pre[2]

\* C6: a remove at an index below the length returns the value that was there,
\* shortens the vector by one, keeps the elements before i and moves those
\* after i one place to the left in the same order
C6_Remove ==
    /\ (last.op = "remove" /\ last.idx < Len(last.pre)) =>
          LET pre == last.pre
              i == last.idx
          IN  /\ last.ok
              /\ last.res = pre[i + 1]
              /\ len = Len(pre) - 1
              /\ \A k \in 1..i : Deref[k] = pre[k]
              /\ \A k \in (i + 2)..Len(pre) : Deref[k - 1] = pre[k]
              /\ cap = last.preCap

C6_Witness ==
    /\ esize = 1 /\ last.op = "remove" /\ last.ok
    /\ last.idx = 1 /\ Len(last.pre) = 4 /\ last.pre[3] # last.pre[4]

\* C7: insert at an index above the length, and remove at an index not below
\* it, panic; nothing was read or written and the vector is as it was
C7_OutOfBounds ==
    (\/ last.op = "insert" /\ last.idx > Len(last.pre)
     \/ last.op = "remove" /\ last.idx >= Len(last.pre)) =>
        /\ status = "panicked"
        /\ ~last.ok
        /\ last.reads = {} /\ last.writes = {}
        /\ Deref = last.pre
        /\ cap = last.preCap
        /\ ~last.grew

C7_Witness ==
    /\ esize = 0 /\ status = "panicked"
    /\ last.op = "remove" /\ last.idx = len /\ len = 2

\* C8: a pop right after a push returns the pushed value and leaves the length
\* and the live elements the push started from
C8_PushPop ==
    (prev.op = "push" /\ last.op = "pop") =>
        /\ last.res = prev.arg
        /\ len = Len(prev.pre)
        /\ Deref = prev.pre

C8_Witness ==
    /\ esize = 1 /\ prev.op = "push" /\ last.op = "pop"
    /\ Len(prev.pre) = 2 /\ last.res # prev.pre[2] /\ cap = 4 /\ last.preCap = 4

\* C9 as stated: with a zero-sized element the capacity is usize::MAX, every
\* pop of a non-empty vector returns the unit value, nothing is allocated,
\* reallocated or freed, and grow is never entered
C9_ZstNoGrow ==
    esize = 0 =>
        /\ cap = USIZE_MAX
        /\ (last.op = "pop" /\ Len(last.pre) > 0) => last.res = Unit
        /\ allocOps = {} /\ heapSize = 0
        /\ ~growEntered

\* C9 amended: as above, except that grow is entered by an element added at
\* length usize::MAX, where it panics before any allocator call; every other
\* push succeeds
C9_ZstNoAlloc ==
    esize = 0 =>
        /\ cap = USIZE_MAX
        /\ (last.op = "pop" /\ Len(last.pre) > 0) => last.res = Unit
        /\ allocOps = {} /\ heapSize = 0 /\ deallocs = <<>>
        /\ growEntered => (status = "panicked" /\ len = USIZE_MAX)
        /\ (last.op = "push" /\ Len(last.pre) < USIZE_MAX) =>
              (last.ok /\ len = Len(last.pre) + 1)

C9_Witness ==
    /\ esize = 0 /\ last.op = "pop" /\ last.res = Unit
    /\ len = 0 /\ status = "live"
    /\ growEntered = FALSE

\* C10: with a sized element the capacity starts at 0 and a step changes it
\* only inside grow, from 0 to 1 or to its double; pop and remove keep it
C10_CapStep ==
    \/ cap' = cap
    \/ /\ last'.grew /\ growEntered'
       /\ \/ cap = 0 /\ cap' = 1
          \/ cap > 0 /\ cap' = 2 * cap

C10_Doubling ==
    /\ (esize # 0 => cap = 0)
    /\ [][esize # 0 =>
            /\ C10_CapStep
            /\ last'.op \in {"pop", "remove"} => cap' = cap]_vars

C10_Witness ==
    /\ esize = 1 /\ cap = 4 /\ last.grew /\ last.preCap = 2

\* C11: the length never exceeds the capacity
C11_LenLeCap == len <= cap

C11_Witness ==
    /\ esize = 1 /\ status = "live" /\ len = 4 /\ cap = 4
    /\ last.op = "insert" /\ last.ok

\* an element added to a full sized vector whose doubled capacity would take
\* more than isize::MAX bytes
OversizedGrow ==
    /\ esize # 0
    /\ last.op \in {"push", "insert"}
    /\ last.idx <= Len(last.pre)
    /\ Len(last.pre) = last.preCap
    /\ LayoutSize(esize, GrowNewCap(last.preCap)) > ISIZE_MAX

\* C12: such a grow panics; the allocator is not called and the capacity, the
\* base pointer and the allocation are what they were
C12_GrowTooLarge ==
    OversizedGrow =>
        /\ status = "panicked"
        /\ ~last.ok /\ last.grew
        /\ last.calls = {}
        /\ cap = last.preCap
        /\ ptr = last.prePtr
        /\ heapSize = last.preHeap
        /\ Deref = last.pre

C12_Witness ==
    /\ OversizedGrow /\ status = "panicked"
    /\ esize = 2 /\ cap = 2 /\ last.op = "push"

\* C13: while a sized buffer lives, its allocation is cap * size_of(T) bytes at
\* ptr (none when cap is 0) and nothing has been freed; once dropped, exactly
\* that allocation was handed to dealloc, once, and nothing was when the
\* capacity was 0 or T is zero-sized
C13_Layout ==
    /\ status # "dropped" =>
          /\ deallocs = <<>>
          /\ heapSize = (IF esize = 0 THEN 0 ELSE LayoutSize(esize, cap))
          /\ (esize # 0 /\ cap > 0) => ptr \in HeapAddrs
    /\ status = "dropped" =>
          /\ heapSize = 0
          /\ deallocs = (IF last.preHeap = 0 THEN <<>>
                         ELSE <<[addr |-> ptr, size |-> last.preHeap]>>)
          /\ (esize = 0 \/ cap = 0) => (deallocs = <<>> /\ last.calls = {})

C13_Witness ==
    /\ status = "dropped" /\ esize = 2 /\ cap = 2
    /\ deallocs = <<[addr |-> ptr, size |-> 4]>>

\* C14: an operation that grew left the elements it started from in place and
\* in order, the new element aside; a run of pushes reads back as pushed
\* across its grows
C14_GrowKeeps ==
    /\ (last.grew /\ last.ok /\ last.op = "push") =>
          /\ len = Len(last.pre) + 1
          /\ \A k \in 1..Len(last.pre) : PtrRead(mem, k - 1) = last.pre[k]
    /\ (last.grew /\ last.ok /\ last.op = "insert") =>
          /\ len = Len(last.pre) + 1
          /\ \A k \in 1..Len(last.pre) :
                PtrRead(mem, IF k <= last.idx THEN k - 1 ELSE k) = last.pre[k]
    /\ (last.grew /\ last.ok /\ onlyPush) => SliceOf(mem, Len(pushed)) = pushed

C14_Witness ==
    /\ esize = 1 /\ onlyPush /\ last.grew /\ last.ok
    /\ last.preCap = 2 /\ cap = 4 /\ len = 3
    /\ last.prePtr # ptr
    /\ pushed[1] # pushed[2]

\* C15: a pop of an empty vector returns None and changes nothing; a pop of a
\* non-empty one returns the last element and shortens the vector by one
C15_Pop ==
    last.op = "pop" =>
        /\ last.ok /\ status = "live"
        /\ cap = last.preCap /\ ptr = last.prePtr
        /\ IF Len(last.pre) = 0
           THEN last.res = None /\ len = 0 /\ last.reads = {}
           ELSE /\ last.res = last.pre[Len(last.pre)]
                /\ len = Len(last.pre) - 1
                /\ Deref = SubSeq(last.pre, 1, Len(last.pre) - 1)

C15_Witness ==
    /\ last.op = "pop" /\ Len(last.pre) = 0 /\ last.res = None
    /\ esize = 1 /\ cap = 2 /\ status = "live"

\* C16: an operation that failed left the length, the capacity, the buffer and
\* the live elements as they were; a failed bounds check came before any grow
\* or allocator call
C16_FailedUnchanged ==
    /\ ~last.ok =>
          /\ status \in {"panicked", "aborted"}
          /\ len = Len(last.pre)
          /\ cap = last.preCap
          /\ ptr = last.prePtr
          /\ heapSize = last.preHeap
          /\ Deref = last.pre
          /\ last.writes = {}
    /\ (/\ ~last.ok
        /\ \/ last.op = "insert" /\ last.idx > Len(last.pre)
           \/ last.op = "remove" /\ last.idx >= Len(last.pre)) =>
          /\ ~last.grew
          /\ last.calls = {}
    /\ last.ok => status \in {"live", "dropped"}

C16_Witness ==
    /\ esize = 1 /\ status = "panicked" /\ ~last.ok
    /\ last.op = "insert" /\ last.idx = 3
    /\ len = 2 /\ cap = 2 /\ Len(last.pre) = 2

Stride == IF esize = 0 THEN 1 ELSE esize

\* C17: an iterator over n elements has, after k calls that yielded, handed
\* out the first k elements in order and moved start k elements on; start
\* meets end exactly when all n are out, and a call made then yields nothing
C17_RawValIter ==
    drain.active =>
        LET k == Len(drain.out)
            n == Len(drain.src)
        IN  /\ k <= n
            /\ drain.out = SubSeq(drain.src, 1, k)
            /\ drain.start = (ptr + k * Stride) % WordMod
            /\ (drain.start = drain.end) = (k = n)
            /\ SizeHint(drain) = n - k
            /\ last.op = "drain_next" =>
                  IF last.reads = {}
                  THEN last.res = None /\ k = n
                  ELSE last.res = drain.src[k] /\ last.reads = {k - 1}

C17_Witness ==
    /\ drain.active /\ esize = 2 /\ Len(drain.src) = 2
    /\ drain.src[1] # drain.src[2]
    /\ drain.out = drain.src
    /\ last.op = "drain_next" /\ last.res = None

Pow2 == {2^k : k \in 0..WordBits}

\* the smallest power of two that is at least n
Pow2Ceil(n) == CHOOSE p \in Pow2 : p >= n /\ \A q \in Pow2 : q >= n => p <= q

\* C18: the capacity of a sized vector is 0 while no element was ever added,
\* and otherwise the smallest power of two at least the greatest length
\* reached; an element added grows the buffer exactly when len == cap, by one
\* doubling
C18_CapOfMaxLen ==
    esize # 0 =>
        /\ cap = (IF maxLen = 0 THEN 0 ELSE Pow2Ceil(maxLen))
        /\ (last.op \in {"push", "insert"} /\ last.ok) =>
              /\ last.grew = (Len(last.pre) = last.preCap)
              /\ cap = (IF ~last.grew THEN last.preCap
                        ELSE IF last.preCap = 0 THEN 1 ELSE 2 * last.preCap)

C18_Witness ==
    /\ esize = 1 /\ status = "live" /\ maxLen = 3 /\ cap = 4 /\ len = 1
    /\ last.op = "push" /\ ~last.grew

\* C19: for a sized vector cap * size_of(T) stays within isize::MAX, so the
\* doubling cap * 2 does not wrap; a grow that returned made the capacity
\* larger, and a doubling that needs more than isize::MAX bytes panicked
C19_NoWrap ==
    esize # 0 =>
        /\ LayoutSize(esize, cap) <= ISIZE_MAX
        /\ cap * 2 <= USIZE_MAX
        /\ GrowNewCap(cap) = (IF cap = 0 THEN 1 ELSE cap * 2)
        /\ (last.grew /\ last.ok) => cap > last.preCap
        /\ (last.grew /\ last.preCap > 0
                /\ LayoutSize(esize, last.preCap * 2) > ISIZE_MAX) =>
              (status = "panicked" /\ cap = last.preCap)

C19_Witness ==
    /\ esize = 4 /\ cap = 1 /\ status = "panicked"
    /\ last.grew /\ last.op = "push" /\ len = 1

\* C20: a remove at the index of the insert just before it returns the value
\* inserted and leaves the length and the live elements the insert started from
C20_InsertRemove ==
    (prev.op = "insert" /\ last.op = "remove" /\ last.idx = prev.idx) =>
        /\ last.ok
        /\ last.res = prev.arg
        /\ len = Len(prev.pre)
        /\ Deref = prev.pre

C20_Witness ==
    /\ esize = 1 /\ prev.op = "insert" /\ last.op = "remove"
    /\ last.idx = 1 /\ prev.idx = 1 /\ Len(prev.pre) = 2
    /\ last.res # prev.pre[2] /\ cap = 4 /\ last.preCap = 4

====
